---- MODULE Spec2Model ----
(***************************************************************************)
(* Model of Gust's bar-chart builder (src/backend/bar_chart.rs) and of the *)
(* JSONDict helper (src/backend/elements/general.rs).                      *)
(*                                                                         *)
(* A BarChart is the record `self`; every method of `impl BarChart` is an  *)
(* operator of the same name that maps the chart (and the arguments) to    *)
(* the chart after the call.  The actions wrap one call each and record    *)
(* the call and its result.  A JSONDict is the record `jd` of its two      *)
(* HashMaps, each a function from the keys it holds to their values.       *)
(***************************************************************************)
EXTENDS Integers, Sequences, FiniteSets

VARIABLES
    self,       \* the BarChart
    panicked,   \* TRUE once an index into self.data was out of bounds
    op,         \* the last call made on the chart, with its arguments
    ret,        \* what that call returned: the document, or <<>> for ()
    added,      \* arguments of the add_data calls since new() / the last clear_data
    cleared,    \* entries removed by the last clear_data, -1 before the first
    lastDim,    \* arguments of the last set_dimension call, if any
    mutated,    \* TRUE once any mutator has been called since new()
    jd,         \* the JSONDict last built by a factory
    jcall,      \* that factory call: its name and the pairs passed
    jout        \* the fields the last serialization of jd emitted, in order

chartVars == <<self, panicked, op, ret, added, cleared, lastDim, mutated>>
dictVars == <<jd, jcall, jout>>
vars == <<self, panicked, op, ret, added, cleared, lastDim, mutated, jd, jcall, jout>>

----------------------------------------------------------------------------
(* Bounds and input samples *)

\* Longest values vector the model lets add_data build.
MaxData == 2

\* The range of i32.
MaxI32 == 2147483647
MinI32 == -MaxI32 - 1

Categories == {"apples", "pears"}
Amounts == {MinI32, 28}
Dimensions == {MinI32, 0, MaxI32}
Paddings == {0, MaxI32}
Descriptions == {"", "Fruit"}

----------------------------------------------------------------------------
(* Elements of backend::elements::bar_chart *)

BarChartValue_new(category, amount) == [category |-> category, amount |-> amount]

BarChartData_new == [name |-> "table", values |-> <<>>]

BarChartData_clear(d) == [d EXCEPT !.values = <<>>]

create_xscale == [scale |-> "x", zero |-> FALSE]
create_yscale == [scale |-> "y", zero |-> TRUE]
create_xaxis == [orient |-> "bottom", scale |-> "x"]
create_yaxis == [orient |-> "left", scale |-> "y"]
create_mark == [mark |-> "bar", from |-> "table"]

Field(name, value) == [name |-> name, value |-> value]

BarChartData_serialize(d) == <<Field("name", d.name), Field("values", d.values)>>

----------------------------------------------------------------------------
(* impl BarChart *)

SchemaURL == "https://vega.github.io/schema/vega/v3.0.json"

new_transposed ==
    [ identifier  |-> "barchart",
      description |-> "A barchart",
      width       |-> 300,
      height      |-> 500,
      padding     |-> 5,
      data        |-> <<BarChartData_new>>,
      scales      |-> <<create_xscale, create_yscale>>,
      axes        |-> <<create_xaxis, create_yaxis>>,
      marks       |-> <<create_mark>> ]

new ==
    [ identifier  |-> "barchart",
      description |-> "A barchart",
      width       |-> 500,
      height      |-> 300,
      padding     |-> 5,
      data        |-> <<BarChartData_new>>,
      scales      |-> <<create_xscale, create_yscale>>,
      axes        |-> <<create_xaxis, create_yaxis>>,
      marks       |-> <<create_mark>> ]

\* self.data[0] panics when the vector is empty.
data0_in_bounds(c) == Len(c.data) >= 1

add_data_prepend(c, category, amount) ==
    [c EXCEPT !.data[1].values = <<BarChartValue_new(category, amount)>> \o @]

add_data_new_series(c, category, amount) ==
    [c EXCEPT !.data = Append(@, [name |-> "table",
                                  values |-> <<BarChartValue_new(category, amount)>>])]

add_data(c, category, amount) ==
    [c EXCEPT !.data[1].values = Append(@, BarChartValue_new(category, amount))]

set_description_ident(c, description) == [c EXCEPT !.identifier = description]

set_description(c, description) == [c EXCEPT !.description = description]

set_dimension_transposed(c, t) == [c EXCEPT !.width = t[1], !.height = t[2]]

set_dimension(c, t) == [c EXCEPT !.height = t[1], !.width = t[2]]

set_padding(c, pad) == [c EXCEPT !.padding = pad]

clear_data_drop_series(c) == [c EXCEPT !.data = <<>>]

clear_data_keep_first(c) ==
    [c EXCEPT !.data[1].values = IF Len(@) > 1 THEN <<@[1]>> ELSE <<>>]

clear_data(c) == [c EXCEPT !.data[1] = BarChartData_clear(@)]

\* A Vec field is emitted as the array of its elements' serializations.
SerializeData(v) == [i \in 1..Len(v) |-> BarChartData_serialize(v[i])]

SerializeElements(v) == [i \in 1..Len(v) |-> v[i]]

serialize_swapped(c) ==
    << Field("$schema", SchemaURL),
       Field("height", c.height),
       Field("width", c.width),
       Field("padding", c.padding),
       Field("data", SerializeData(c.data)),
       Field("scales", SerializeElements(c.scales)),
       Field("axes", SerializeElements(c.axes)),
       Field("marks", SerializeElements(c.marks)) >>

serialize(c) ==
    << Field("$schema", SchemaURL),
       Field("width", c.width),
       Field("height", c.height),
       Field("padding", c.padding),
       Field("data", SerializeData(c.data)),
       Field("scales", SerializeElements(c.scales)),
       Field("axes", SerializeElements(c.axes)),
       Field("marks", SerializeElements(c.marks)) >>

get_description(c) == c.description
get_identifier(c) == c.identifier

----------------------------------------------------------------------------
(* Calls on the chart *)

Call(name, category, amount, t, pad, text) ==
    [name |-> name, category |-> category, amount |-> amount,
     t |-> t, pad |-> pad, text |-> text]

Plain(name) == Call(name, "", 0, <<0, 0>>, 0, "")

NoDim == [set |-> FALSE, t |-> <<0, 0>>]

ChartInit ==
    /\ self = new
    /\ panicked = FALSE
    /\ op = Plain("new")
    /\ ret = <<>>
    /\ added = <<>>
    /\ cleared = -1
    /\ lastDim = NoDim
    /\ mutated = FALSE

New ==
    /\ self' = new
    /\ panicked' = FALSE
    /\ op' = Plain("new")
    /\ ret' = <<>>
    /\ added' = <<>>
    /\ cleared' = -1
    /\ lastDim' = NoDim
    /\ mutated' = FALSE
    /\ UNCHANGED dictVars

AddData ==
    \E category \in Categories, amount \in Amounts :
        /\ ~panicked
        /\ Len(added) < MaxData
        /\ op' = Call("add_data", category, amount, <<0, 0>>, 0, "")
        /\ ret' = <<>>
        /\ added' = Append(added, <<category, amount>>)
        /\ mutated' = TRUE
        /\ IF data0_in_bounds(self)
             THEN self' = add_data(self, category, amount) /\ panicked' = FALSE
             ELSE self' = self /\ panicked' = TRUE
        /\ UNCHANGED <<cleared, lastDim>>
        /\ UNCHANGED dictVars

SetDescription ==
    \E text \in Descriptions :
        /\ ~panicked
        /\ self' = set_description(self, text)
        /\ op' = Call("set_description", "", 0, <<0, 0>>, 0, text)
        /\ ret' = <<>>
        /\ mutated' = TRUE
        /\ UNCHANGED <<panicked, added, cleared, lastDim>>
        /\ UNCHANGED dictVars

SetDimension ==
    \E h \in Dimensions, w \in Dimensions :
        /\ ~panicked
        /\ self' = set_dimension(self, <<h, w>>)
        /\ op' = Call("set_dimension", "", 0, <<h, w>>, 0, "")
        /\ ret' = <<>>
        /\ lastDim' = [set |-> TRUE, t |-> <<h, w>>]
        /\ mutated' = TRUE
        /\ UNCHANGED <<panicked, added, cleared>>
        /\ UNCHANGED dictVars

SetPadding ==
    \E pad \in Paddings :
        /\ ~panicked
        /\ self' = set_padding(self, pad)
        /\ op' = Call("set_padding", "", 0, <<0, 0>>, pad, "")
        /\ ret' = <<>>
        /\ mutated' = TRUE
        /\ UNCHANGED <<panicked, added, cleared, lastDim>>
        /\ UNCHANGED dictVars

ClearData ==
    /\ ~panicked
    /\ op' = Plain("clear_data")
    /\ ret' = <<>>
    /\ added' = <<>>
    /\ mutated' = TRUE
    /\ IF data0_in_bounds(self)
         THEN /\ self' = clear_data(self)
              /\ panicked' = FALSE
              /\ cleared' = Len(self.data[1].values)
         ELSE /\ self' = self
              /\ panicked' = TRUE
              /\ cleared' = cleared
    /\ UNCHANGED lastDim
    /\ UNCHANGED dictVars

Serialize ==
    /\ ~panicked
    /\ ret' = serialize(self)
    /\ op' = Plain("serialize")
    /\ UNCHANGED <<self, panicked, added, cleared, lastDim, mutated>>
    /\ UNCHANGED dictVars

----------------------------------------------------------------------------
(* JSONDict, src/backend/elements/general.rs *)

Keys == {"data", "field", "scale"}
StrVals == {"table", "u"}
IntVals == {MinI32, 1}

\* HashMap::new() and HashMap::insert: inserting under a key already held
\* replaces the value held.
HashMap_new == [k \in {} |-> 0]

insert(m, k, v) == [x \in (DOMAIN m) \cup {k} |-> IF x = k THEN v ELSE m[x]]

JSONDict_new == [str_vals |-> HashMap_new, i32_vals |-> HashMap_new]

create_first_only(x_key, x_val, y_key, y_val) ==
    [JSONDict_new EXCEPT !.str_vals = insert(@, x_key, x_val)]

create(x_key, x_val, y_key, y_val) ==
    [JSONDict_new EXCEPT !.str_vals = insert(insert(@, x_key, x_val), y_key, y_val)]

band_create(x_key, x_val, y_key, y_val) ==
    [JSONDict_new EXCEPT !.str_vals = insert(@, x_key, x_val),
                         !.i32_vals = insert(@, y_key, y_val)]

tri_create(x_key, x_val, y_key, y_val, z_key, z_val) ==
    [JSONDict_new EXCEPT !.str_vals = insert(@, x_key, x_val),
                         !.i32_vals = insert(insert(@, y_key, y_val), z_key, z_val)]

\* One emitted field: its name and a string or an i32 value.
StrField(k, v) == [key |-> k, kind |-> "str", s |-> v, n |-> 0]
IntField(k, v) == [key |-> k, kind |-> "i32", s |-> "", n |-> v]

\* The orders a HashMap over the key set S may be iterated in.
Orders(S) ==
    {o \in [1..Cardinality(S) -> S] : \A i, j \in 1..Cardinality(S) : o[i] = o[j] => i = j}

\* The fields emitted when str_vals is iterated in order so and i32_vals in io.
JSONDict_serialize(d, so, io) ==
    [i \in 1..Len(so) |-> StrField(so[i], d.str_vals[so[i]])]
        \o [i \in 1..Len(io) |-> IntField(io[i], d.i32_vals[io[i]])]

DictStart ==
    /\ jd = create("data", "table", "field", "u")
    /\ jcall = [fn |-> "create",
                args |-> <<StrField("data", "table"), StrField("field", "u")>>]
    /\ jout = <<>>

Create ==
    \E x_key \in Keys, y_key \in Keys, x_val \in StrVals, y_val \in StrVals :
        /\ jd' = create(x_key, x_val, y_key, y_val)
        /\ jcall' = [fn |-> "create",
                     args |-> <<StrField(x_key, x_val), StrField(y_key, y_val)>>]
        /\ jout' = <<>>
        /\ UNCHANGED chartVars

BandCreate ==
    \E x_key \in Keys, y_key \in Keys, x_val \in StrVals, y_val \in IntVals :
        /\ jd' = band_create(x_key, x_val, y_key, y_val)
        /\ jcall' = [fn |-> "band_create",
                     args |-> <<StrField(x_key, x_val), IntField(y_key, y_val)>>]
        /\ jout' = <<>>
        /\ UNCHANGED chartVars

TriCreate ==
    \E x_key \in Keys, y_key \in Keys, z_key \in Keys,
       x_val \in StrVals, y_val \in IntVals, z_val \in IntVals :
        /\ jd' = tri_create(x_key, x_val, y_key, y_val, z_key, z_val)
        /\ jcall' = [fn |-> "tri_create",
                     args |-> <<StrField(x_key, x_val), IntField(y_key, y_val),
                                IntField(z_key, z_val)>>]
        /\ jout' = <<>>
        /\ UNCHANGED chartVars

SerializeDict ==
    \E so \in Orders(DOMAIN jd.str_vals), io \in Orders(DOMAIN jd.i32_vals) :
        /\ jout' = JSONDict_serialize(jd, so, io)
        /\ UNCHANGED <<jd, jcall>>
        /\ UNCHANGED chartVars

----------------------------------------------------------------------------
(* Specifications *)

Init == ChartInit /\ DictStart

\* A caller driving one BarChart.
Next ==
    \/ New
    \/ AddData
    \/ SetDescription
    \/ SetDimension
    \/ SetPadding
    \/ ClearData
    \/ Serialize

Spec == Init /\ [][Next]_vars

\* A caller building and serializing JSONDicts.
DictNext ==
    \/ Create
    \/ BandCreate
    \/ TriCreate
    \/ SerializeDict

DictSpec == Init /\ [][DictNext]_vars

----------------------------------------------------------------------------
(* Properties of the chart, checked under Spec *)

\* The value the document carries under a top-level field name.
DocValue(doc, name) ==
    LET i == CHOOSE i \in 1..Len(doc) : doc[i].name = name IN doc[i].value

\* The entries that a sequence of add_data arguments stands for.
Entries(calls) ==
    [i \in 1..Len(calls) |-> [category |-> calls[i][1], amount |-> calls[i][2]]]

FieldNames ==
    {"identifier", "description", "width", "height", "padding",
     "data", "scales", "axes", "marks"}

\* Every field of the chart outside S is the same before and after the step.
OnlyChanges(S) == \A f \in FieldNames \ S : self'[f] = self[f]

\* C1: with n add_data(c_i, v_i) calls and no clear_data since new(), the
\* values of the first data series have length n and the i-th entry is
\* (c_i, v_i), in call order; duplicate categories stay separate entries.
C1_AppendInOrder ==
    cleared = -1 =>
        /\ data0_in_bounds(self)
        /\ Len(self.data[1].values) = Len(added)
        /\ \A i \in 1..Len(added) :
              /\ self.data[1].values[i].category = added[i][1]
              /\ self.data[1].values[i].amount = added[i][2]

\* Two add_data calls with the same category and different amounts, no clear.
C1_Witness ==
    /\ cleared = -1
    /\ Len(added) >= 2
    /\ added[1][1] = added[2][1]
    /\ added[1][2] # added[2][2]

C2_ClearStep ==
    op'.name = "clear_data" =>
        /\ data0_in_bounds(self) /\ data0_in_bounds(self')
        /\ Len(self'.data) = Len(self.data)
        /\ self'.data[1].values = <<>>
        /\ self'.data[1].name = self.data[1].name

C2_AfterClear ==
    cleared >= 0 =>
        /\ data0_in_bounds(self)
        /\ self.data[1].name = "table"
        /\ self.data[1].values = Entries(added)
        /\ op.name = "serialize" =>
              DocValue(ret, "data") =
                  << <<Field("name", "table"), Field("values", Entries(added))>> >>

\* C2: clear_data() leaves the first data series in place with the name it
\* had and an empty values sequence; afterwards the series holds exactly the
\* entries added since the clear, and the serialized data array contains it.
C2_ClearData == [][C2_ClearStep]_vars /\ []C2_AfterClear

\* A clear_data that removed entries, an add_data after it, then serialize.
C2_Witness ==
    /\ cleared >= 1
    /\ Len(added) >= 1
    /\ op.name = "serialize"

\* C3: after set_dimension((h, w)) the chart's height is h and its width is
\* w, and serialize() emits height h and width w for the last such call.
C3_DimensionSerialized ==
    lastDim.set =>
        /\ self.height = lastDim.t[1]
        /\ self.width = lastDim.t[2]
        /\ op.name = "serialize" =>
              /\ DocValue(ret, "height") = lastDim.t[1]
              /\ DocValue(ret, "width") = lastDim.t[2]

\* A serialization after set_dimension with different height and width.
C3_Witness ==
    /\ lastDim.set
    /\ lastDim.t[1] # lastDim.t[2]
    /\ op.name = "serialize"

\* C4: the chart always holds exactly one data series, two scales, two axes
\* and one mark; scales, axes and marks are those new() built.
C4_ElementCounts ==
    /\ Len(self.data) = 1
    /\ Len(self.scales) = 2
    /\ Len(self.axes) = 2
    /\ Len(self.marks) = 1
    /\ self.scales = <<create_xscale, create_yscale>>
    /\ self.axes = <<create_xaxis, create_yaxis>>
    /\ self.marks = <<create_mark>>

\* Every mutator has acted: entries cleared and added, size, padding and
\* description replaced.
C4_Witness ==
    /\ cleared >= 1
    /\ Len(added) >= 1
    /\ lastDim.set
    /\ self.padding # 5
    /\ self.description # "A barchart"

GoldenDocument ==
    << Field("$schema", "https://vega.github.io/schema/vega/v3.0.json"),
       Field("width", 500),
       Field("height", 300),
       Field("padding", 5),
       Field("data", << <<Field("name", "table"), Field("values", <<>>)>> >>),
       Field("scales", <<[scale |-> "x", zero |-> FALSE], [scale |-> "y", zero |-> TRUE]>>),
       Field("axes", <<[orient |-> "bottom", scale |-> "x"],
                       [orient |-> "left", scale |-> "y"]>>),
       Field("marks", <<[mark |-> "bar", from |-> "table"]>>) >>

\* C7: a chart on which no mutator has been called since new() serializes to
\* the one fixed default document, whichever construction built it.
C7_DefaultDocument ==
    (op.name = "serialize" /\ ~mutated) =>
        /\ ret = GoldenDocument
        /\ Len(DocValue(ret, "data")) = 1
        /\ Len(DocValue(ret, "scales")) = 2
        /\ Len(DocValue(ret, "axes")) = 2
        /\ Len(DocValue(ret, "marks")) = 1

\* A freshly built chart has been serialized.
C7_Witness == op.name = "serialize" /\ ~mutated

C8_Document ==
    op.name = "serialize" =>
        /\ Len(ret) = 8
        /\ [i \in 1..8 |-> ret[i].name] =
              <<"$schema", "width", "height", "padding", "data", "scales", "axes", "marks">>
        /\ ret[1].value = "https://vega.github.io/schema/vega/v3.0.json"
        /\ ret[2].value = self.width
        /\ ret[3].value = self.height
        /\ ret[4].value = self.padding
        /\ Len(ret[5].value) = Len(self.data)
        /\ \A i \in 1..Len(self.data) :
              ret[5].value[i] = <<Field("name", self.data[i].name),
                                  Field("values", self.data[i].values)>>
        /\ ret[6].value = self.scales
        /\ ret[7].value = self.axes
        /\ ret[8].value = self.marks

C8_ReadOnly == op'.name = "serialize" => self' = self

C8_Repeatable == (op.name = "serialize" /\ op'.name = "serialize") => ret' = ret

\* C8: serialize() emits the fields $schema, width, height, padding, data,
\* scales, axes, marks, in that order, once each, with the chart's current
\* values; it changes no field of the chart, and serializing twice in a row
\* gives the same document.
C8_SerializeFixedFields ==
    []C8_Document /\ [][C8_ReadOnly]_vars /\ [][C8_Repeatable]_vars

\* A serialization of a chart with data and with width different from height.
C8_Witness ==
    /\ op.name = "serialize"
    /\ self.width # self.height
    /\ Len(self.data[1].values) >= 1

\* C9: no mutator panics: data series 0 exists in every reachable state, so
\* the index add_data and clear_data make is in bounds, also after a clear.
C9_MutatorsTotal == ~panicked /\ data0_in_bounds(self)

\* add_data has completed after a clear_data.
C9_Witness ==
    /\ cleared >= 0
    /\ op.name = "add_data"
    /\ ~panicked
    /\ Len(self.data[1].values) >= 1

C10_FrameStep ==
    /\ op'.name = "set_description" => OnlyChanges({"description"})
    /\ op'.name = "set_padding" => OnlyChanges({"padding"})
    /\ op'.name = "set_dimension" => OnlyChanges({"height", "width"})
    /\ op'.name \in {"add_data", "clear_data"} =>
          /\ OnlyChanges({"data"})
          /\ Len(self'.data) = Len(self.data)
          /\ \A i \in 1..Len(self.data) :
                /\ self'.data[i].name = self.data[i].name
                /\ i # 1 => self'.data[i] = self.data[i]
    /\ op'.name = "serialize" => OnlyChanges({})
    /\ get_identifier(self') = get_identifier(self)

C10_DocIgnoresText ==
    op.name = "serialize" =>
        /\ \A text \in Descriptions \cup {"A barchart"} :
              ret = serialize([self EXCEPT !.description = text])
        /\ \A i \in 1..Len(ret) : ret[i].name \notin {"description", "identifier"}
        /\ get_identifier(self) = "barchart"

\* C10: each mutator changes only its own target and none changes the
\* identifier; the document does not depend on the description.
C10_Frame == [][C10_FrameStep]_vars /\ []C10_DocIgnoresText

\* A chart whose description was replaced has been serialized.
C10_Witness ==
    /\ op.name = "serialize"
    /\ get_description(self) = "Fruit"

----------------------------------------------------------------------------
(* Properties of JSONDict, checked under DictSpec *)

\* C5: no field name is emitted twice by one serialization of a JSONDict.
C5_NoKeyTwice ==
    \A i, j \in 1..Len(jout) : jout[i].key = jout[j].key => i = j

\* The pairs passed that no later pair of the same kind and key replaces.
Kept(args) ==
    {args[i] : i \in {i \in 1..Len(args) :
        \A j \in (i + 1)..Len(args) :
            ~(args[j].key = args[i].key /\ args[j].kind = args[i].kind)}}

Emitted(out) == {out[i] : i \in 1..Len(out)}

\* C6 as claimed: a serialized JSONDict has one field per pair passed to its
\* factory (2, 2, 3) and every pair passed is among the fields emitted.
C6_FullyPopulated ==
    Len(jout) > 0 =>
        /\ Len(jout) = Len(jcall.args)
        /\ Emitted(jout) = {jcall.args[i] : i \in 1..Len(jcall.args)}

\* C6 as amended: the fields emitted are exactly the pairs passed, except
\* that a pair is replaced by a later pair of the same value type under the
\* same key; with same-typed keys distinct that is one field per pair.
C6_PopulatedUpToReplacement ==
    Len(jout) > 0 =>
        /\ Emitted(jout) = Kept(jcall.args)
        /\ Len(jout) = Cardinality(Kept(jcall.args))
        /\ Cardinality(Kept(jcall.args)) = Len(jcall.args)
              <=> (\A i, j \in 1..Len(jcall.args) :
                      (jcall.args[i].key = jcall.args[j].key
                       /\ jcall.args[i].kind = jcall.args[j].kind) => i = j)

\* A tri_create with three distinct keys has been serialized to 3 fields.
C6_Witness ==
    /\ jcall.fn = "tri_create"
    /\ Len(jout) = 3
    /\ Cardinality({jout[i].key : i \in 1..3}) = 3

====
